---- MODULE Spec2Model ----
(***************************************************************************)
(* Discovery engine of quran-miracles: the nine stage nodes of             *)
(* discovery_engine/core/graph.py, the two engine shapes returned by       *)
(* build_discovery_graph (the compiled LangGraph graph and _FallbackGraph) *)
(* and the SSE adapter of api/routes/discovery.py.                         *)
(*                                                                         *)
(* A Python dict is a TLA+ function whose DOMAIN is the set of keys that   *)
(* are present.  A Python list is a sequence.  Strings that are only       *)
(* tested for emptiness or for the tier markers they contain are kept as   *)
(* the sequence of the markers they contain (<<>> is the empty string).    *)
(* Scores are kept in hundredths (0.6 is 60).                              *)
(***************************************************************************)
EXTENDS Bags, FiniteSets, Integers, Sequences, TLC

VARIABLES
    engine,             \* which object build_discovery_graph returned
    state,              \* the engine's state dict (result / graph channels)
    ready,              \* nodes of the current super-step still to finish
    partials,           \* node -> update of the finished nodes of the step
    pc,                 \* position of stream_discovery.event_generator
    pending,            \* events of the current chunk not yet yielded
    events,             \* the SSE events sent so far
    emitted,            \* the adapter's emitted set
    accumulated_state,  \* _stream_from_graph's accumulated_state
    replay_i,           \* _stream_from_fallback's position in the log
    runs,               \* history: how many times each node has returned
    asked,              \* history: should_deepen as returned by each review
    first_done,         \* history: the branch of the last fan-out that
                        \*          returned first
    failed,             \* history: the node that raised, or "none"
    found,              \* history: findings returned so far by the science
                        \*          and humanities agents
    empties,            \* history: the stages that have returned an empty
                        \*          result (no verses, no findings, no text)
    explored,           \* science_node: discipline index -> findings of the
                        \*          explore tasks that have finished
    save_calls,         \* history: calls of db.save_discovery
    duo,                \* two callers of one graph object: caller -> what
                        \*          its orchestration and its adapter hold
    checkpoints,        \* the MemorySaver of the graph: thread id -> state
    env,                \* what the services behind the agents can answer
                        \*          in this deployment
    sched,              \* the AutonomousDiscoveryScheduler and its jobs
    saved_ids           \* history: what each call of db.save_discovery
                        \*          gave: an id, or "failed"

vars == <<engine, state, ready, partials, pc, pending, events, emitted,
          accumulated_state, replay_i, runs, asked, first_done, failed,
          found, empties, explored, save_calls, duo, checkpoints,
                   env, sched, saved_ids>>

-----------------------------------------------------------------------------
(* Bounds of the model *)

MaxVerses == 1
MaxFindings == 2
MaxTicks == 10

(* Program constants *)

MAX_ITERATIONS == 3
DEEPEN_THRESHOLD == 60

-----------------------------------------------------------------------------
(* dicts *)

EmptyDict == [k \in {} |-> 0]

Get(d, k, default) == IF k \in DOMAIN d THEN d[k] ELSE default

Update(d, u) ==
    [k \in DOMAIN d \cup DOMAIN u |-> IF k \in DOMAIN u THEN u[k] ELSE d[k]]

Range(s) == {s[i] : i \in 1..Len(s)}

(* The event log.  _FallbackGraph keeps it as the list the nodes return.   *)
(* The compiled graph merges every returned list into the channel with     *)
(* operator.add, which doubles the list at every step; no code path reads  *)
(* the order of that list (_stream_from_fallback never sees a compiled     *)
(* graph), so the channel is kept as the bag of its records.               *)

EmptyList == IF engine = "fallback" THEN <<>> ELSE EmptyBag

One(rec) == IF engine = "fallback" THEN <<rec>> ELSE SetToBag({rec})

Plus(a, b) == IF engine = "fallback" THEN a \o b ELSE a (+) b

Log(s) == Get(s, "streaming_updates", EmptyList)


-----------------------------------------------------------------------------
(* RouteQueryAgent.route.  A query is kept as the number of keywords of    *)
(* each table that occur in it.                                            *)

SCIENCE_DISCIPLINES ==
    {"physics", "chemistry", "biology", "medicine", "astronomy", "geology"}

HUMANITIES_DISCIPLINES ==
    {"psychology", "sociology", "economics", "management", "ethics",
     "linguistics"}

Max3(a, b, c) ==
    IF a >= b /\ a >= c THEN a ELSE IF b >= c THEN b ELSE c

KeywordRoute(q) ==
    LET sc == q.science
        hu == q.humanities
        ta == q.tafseer
    IN  IF Max3(sc, hu, ta) = 0 THEN "parallel"
        ELSE IF ta > sc /\ ta > hu THEN "tafseer"
        ELSE IF sc > hu /\ sc > ta THEN "science"
        ELSE IF hu > sc /\ hu > ta THEN "humanities"
        ELSE "parallel"

route(st) ==
    LET query == Get(st, "query", [science |-> 0, humanities |-> 0, tafseer |-> 0])
        mode == Get(st, "mode", "guided")
        disciplines == Get(st, "disciplines", <<>>)
        has_science == Range(disciplines) \cap SCIENCE_DISCIPLINES # {}
        has_humanities == Range(disciplines) \cap HUMANITIES_DISCIPLINES # {}
    IN  IF mode = "autonomous" \/ mode = "cross_domain" THEN "parallel"
        ELSE IF disciplines # <<>> /\ has_science /\ ~has_humanities
             THEN "science"
        ELSE IF disciplines # <<>> /\ has_humanities /\ ~has_science
             THEN "humanities"
        ELSE KeywordRoute(query)

-----------------------------------------------------------------------------
(* The node functions of _make_nodes.  Each takes the state snapshot and   *)
(* what its agent returned, and gives the partial update it returns.       *)

DEFAULT_DISCIPLINES == <<"physics", "biology", "psychology">>

(* route_query writing the defaults whatever the state holds *)
route_queryAlwaysDefaults(st) ==
    LET updates == [disciplines |-> DEFAULT_DISCIPLINES, mode |-> "guided",
                    iteration_count |-> 0]
        r == route(Update(st, updates))
    IN  Update(updates,
               [streaming_updates |->
                   Plus(Log(st), One([stage |-> "route_query",
                                      status |-> "done", route |-> r]))])

route_query(st) ==
    LET u1 == IF Get(st, "disciplines", <<>>) = <<>>
              THEN [disciplines |-> DEFAULT_DISCIPLINES] ELSE EmptyDict
        u2 == IF Get(st, "mode", "") = ""
              THEN [mode |-> "guided"] ELSE EmptyDict
        u3 == IF Get(st, "iteration_count", 0) = 0
              THEN [iteration_count |-> 0] ELSE EmptyDict
        updates == Update(Update(u1, u2), u3)
        r == route(Update(st, updates))
    IN  Update(updates,
               [streaming_updates |->
                   Plus(Log(st), One([stage |-> "route_query",
                                      status |-> "done", route |-> r]))])

quran_rag_node(st, result) ==
    [verses |-> Get(result, "verses", <<>>),
     tafseer_context |-> Get(result, "tafseer_context", EmptyDict),
     streaming_updates |->
        Plus(Log(st), One([stage |-> "quran_rag", status |-> "done",
                           source |-> Get(result, "source", "unknown"),
                           verse_count |-> Len(Get(result, "verses", <<>>))]))]

linguistic_node(st, result) ==
    [linguistic_analysis |-> result,
     streaming_updates |->
        Plus(Log(st), One([stage |-> "linguistic", status |-> "done"]))]

science_node(st, all_findings) ==
    [science_findings |-> all_findings,
     streaming_updates |->
        Plus(Log(st), One([stage |-> "science", status |-> "done",
                           finding_count |-> Len(all_findings)]))]

(* TafseerAgent.analyze fetches the tafseers from the database when no    *)
(* verse has any (and a database is there and answers) and stores them on *)
(* the verse dicts it was given: the dicts of state["verses"].            *)
has_tafseers(verses) == \E i \in DOMAIN verses : verses[i].tafseers # <<>>

CanFetch(verses) == verses # <<>> /\ ~has_tafseers(verses)

Fetched(verses) ==
    [i \in DOMAIN verses |-> [verses[i] EXCEPT !.tafseers = <<"t">>]]

(* a dict whose verses, when it has them, are the same objects *)
WithFetched(d) ==
    IF "verses" \in DOMAIN d
    THEN [d EXCEPT !["verses"] = Fetched(@)] ELSE d

tafseer_node(st, result) ==
    [tafseer_findings |-> result,
     streaming_updates |->
        Plus(Log(st), One([stage |-> "tafseer", status |-> "done"]))]

humanities_node(st, result) ==
    [humanities_findings |-> result,
     streaming_updates |->
        Plus(Log(st), One([stage |-> "humanities", status |-> "done",
                           finding_count |-> Len(result)]))]

(* the scan turned round: tier_3 looked for before tier_1 *)
TierOfThreeFirst(text) ==
    IF "tier_3" \in Range(text) THEN "tier_3"
    ELSE IF "tier_1" \in Range(text) THEN "tier_1"
    ELSE "tier_2"

(* the tier scan of synthesis_node and of SynthesisAgent.synthesize *)
TierOf(text) ==
    IF "tier_1" \in Range(text) THEN "tier_1"
    ELSE IF "tier_3" \in Range(text) THEN "tier_3"
    ELSE "tier_2"

(* SynthesisAgent.synthesize always returns a dict *)
synthesis_node(st, result) ==
    [synthesis |-> Get(result, "synthesis", <<>>),
     confidence_tier |->
        Get(result, "confidence_tier", TierOf(Get(result, "synthesis", <<>>))),
     discovery_id |-> Get(result, "discovery_id", "None"),
     streaming_updates |->
        Plus(Log(st), One([stage |-> "synthesis", status |-> "done"]))]

(* the count incremented once for the test and once more for the write *)
IterationTwice(st) == Get(st, "iteration_count", 0) + 2

(* quality_review_node: the incremented count *)
Iteration(st) == Get(st, "iteration_count", 0) + 1

(* the flag with the bound off by one *)
DeepenAllowedOffByOne(ask, iteration) == ask /\ iteration <= MAX_ITERATIONS

(* quality_review_node: the flag it writes *)
DeepenAllowed(ask, iteration) == ask /\ iteration < MAX_ITERATIONS

quality_review_node(st, result) ==
    LET iteration == Iteration(st)
    IN  [quality_score |-> result.quality_score,
         quality_issues |-> result.quality_issues,
         should_deepen |-> DeepenAllowed(result.should_deepen, iteration),
         iteration_count |-> iteration,
         streaming_updates |->
            Plus(Log(st), One([stage |-> "quality_review", status |-> "done",
                               quality_score |-> result.quality_score,
                               should_deepen |-> result.should_deepen]))]

kg_update_node(st) ==
    [streaming_updates |->
        Plus(Log(st), One([stage |-> "kg_update", status |-> "done"]))]

(* the conditional edge after quality_review *)
should_deepen(st) ==
    IF Get(st, "should_deepen", FALSE)
       /\ Get(st, "iteration_count", 0) < MAX_ITERATIONS
    THEN "deepen" ELSE "complete"

-----------------------------------------------------------------------------
(* What the agents can return.  The agents catch their adapters' failures  *)
(* and fall back to mock results, so a result is an input of the node.     *)

(* a search finds nothing, or MaxVerses verses *)
VerseLists ==
    {[i \in 1..n |-> [id |-> i, tafseers |-> <<>>]] : n \in {0, MaxVerses}}

ScienceFindingLists ==
    {[i \in 1..n |-> <<"s", i>>] : n \in 0..MaxFindings}

HumanitiesFindingLists ==
    {[i \in 1..n |-> <<"h", i>>] : n \in 0..MaxFindings}

RagResults(verse_lists) ==
    {[verses |-> v, tafseer_context |-> <<"ctx">>, source |-> "mock"] :
        v \in verse_lists}

(* LinguisticAnalysisAgent.analyze: no roots when there are no verses *)
LinguisticResults(verses) ==
    IF verses = <<>> THEN {[roots |-> <<>>]} ELSE {[roots |-> <<"root">>]}

(* TafseerAgent.analyze: an empty consensus when there are no verses *)
TafseerResults(verses) ==
    IF verses = <<>> THEN {[consensus_view |-> <<>>]}
    ELSE {[consensus_view |-> <<"view">>]}

SynthesisTexts == {<<"tier_3">>}

SaveOutcomes == {"d1"}

(* SynthesisAgent.synthesize: the text, the tier scanned from it, and the  *)
(* id of the saved discovery when the save succeeded                       *)
synthesize(synthesis_text, saved) ==
    LET result == [synthesis |-> synthesis_text,
                   confidence_tier |-> TierOf(synthesis_text)]
    IN  IF saved \in {"failed", "no_db"} THEN result
        ELSE Update(result, [discovery_id |-> saved])

ReviewInputs ==
    {[score |-> 10, issues |-> <<"issue">>], [score |-> 90, issues |-> <<>>]}

(* QualityReviewAgent.review, from its final score and the issues found *)
review(final_score, issues) ==
    [quality_score |-> final_score,
     quality_issues |-> issues,
     should_deepen |-> final_score < DEEPEN_THRESHOLD]

-----------------------------------------------------------------------------
(* The two engines *)

FANOUT == {"science", "tafseer", "humanities"}

NODES ==
    {"route_query", "quran_rag", "linguistic", "science", "tafseer",
     "humanities", "synthesis", "quality_review", "kg_update"}

CompiledEdgesNoBarrier(step, st) ==
    CASE step = {"route_query"} -> {"quran_rag"}
      [] step = {"quran_rag"} -> {"linguistic"}
      [] step = {"linguistic"} -> FANOUT \cup {"synthesis"}
      [] step = FANOUT \cup {"synthesis"} -> {"quality_review"}
      [] step = {"quality_review"} ->
            IF should_deepen(st) = "deepen" THEN {"quran_rag"}
            ELSE {"kg_update"}
      [] step = {"kg_update"} -> {}

(* edges of the compiled graph: the step that follows a finished step *)
CompiledEdges(step, st) ==
    CASE step = {"route_query"} -> {"quran_rag"}
      [] step = {"quran_rag"} -> {"linguistic"}
      [] step = {"linguistic"} -> FANOUT
      [] step = FANOUT -> {"synthesis"}
      [] step = {"synthesis"} -> {"quality_review"}
      [] step = {"quality_review"} ->
            IF should_deepen(st) = "deepen" THEN {"quran_rag"}
            ELSE {"kg_update"}
      [] step = {"kg_update"} -> {}

(* the order without the call of kg_update *)
FallbackOrderWithoutKgUpdate(step) ==
    CASE step = {"route_query"} -> {"quran_rag"}
      [] step = {"quran_rag"} -> {"linguistic"}
      [] step = {"linguistic"} -> FANOUT
      [] step = FANOUT -> {"synthesis"}
      [] step = {"synthesis"} -> {"quality_review"}
      [] step = {"quality_review"} -> {}
      [] step = {"kg_update"} -> {}

(* the order in which _FallbackGraph.ainvoke calls the nodes *)
FallbackOrder(step) ==
    CASE step = {"route_query"} -> {"quran_rag"}
      [] step = {"quran_rag"} -> {"linguistic"}
      [] step = {"linguistic"} -> FANOUT
      [] step = FANOUT -> {"synthesis"}
      [] step = {"synthesis"} -> {"quality_review"}
      [] step = {"quality_review"} -> {"kg_update"}
      [] step = {"kg_update"} -> {}

(* the compiled graph writes an update into the channels: the annotated    *)
(* key goes through operator.add, every other key is assigned              *)
ChannelMerge(st, upd) ==
    [k \in DOMAIN st \cup DOMAIN upd |->
        IF k \notin DOMAIN upd THEN st[k]
        ELSE IF k = "streaming_updates" THEN Plus(Log(st), upd[k])
        ELSE upd[k]]

AppendNew(base_updates, val) ==
    LET Added(base) ==
            LET new == {i \in 1..Len(val) :
                           /\ val[i] \notin Range(base)
                           /\ \A j \in 1..(i - 1) : val[j] # val[i]}
                nth(n) ==
                    CHOOSE i \in new : Cardinality({j \in new : j <= i}) = n
            IN  base \o [n \in 1..Cardinality(new) |-> val[nth(n)]]
    IN  CHOOSE out \in {Added(base) : base \in {base_updates}} : TRUE

(* one partial of the fan-out merged by _FallbackGraph.ainvoke *)
MergePartial(result, partial) ==
    [k \in DOMAIN result \cup DOMAIN partial |->
        IF k \notin DOMAIN partial THEN result[k]
        ELSE IF k = "streaming_updates"
             THEN AppendNew(Get(result, k, <<>>), partial[k])
        ELSE partial[k]]

(* the partials merged in the order of the stage names *)
FallbackFanInByName(result, sci, taf, hum) ==
    MergePartial(MergePartial(MergePartial(result, hum), sci), taf)

FallbackFanIn(result, sci, taf, hum) ==
    MergePartial(MergePartial(MergePartial(result, sci), taf), hum)

(* the state after the nodes of a step have all returned *)
MergeStep(st, parts) ==
    IF DOMAIN parts = FANOUT
    THEN IF engine = "compiled"
         THEN ChannelMerge(ChannelMerge(ChannelMerge(st, parts["science"]),
                                        parts["tafseer"]),
                           parts["humanities"])
         ELSE FallbackFanIn(st, parts["science"], parts["tafseer"],
                            parts["humanities"])
    ELSE LET n == CHOOSE x \in DOMAIN parts : TRUE
         IN  IF engine = "compiled" THEN ChannelMerge(st, parts[n])
             ELSE Update(st, parts[n])

-----------------------------------------------------------------------------
(* The SSE adapter *)

SESSION_ID == "s1"

_sse_event(event, data) == [event |-> event, data |-> data]

(* nothing is taken from the final state for the replayed record *)
ExtractNothing(st, stage) == EmptyDict

_extract(st, stage) ==
    CASE stage = "quran_rag" -> [verses |-> Get(st, "verses", <<>>)]
      [] stage = "science" ->
            [science_findings |-> Get(st, "science_findings", <<>>)]
      [] stage = "humanities" ->
            [humanities_findings |-> Get(st, "humanities_findings", <<>>)]
      [] stage = "synthesis" -> [synthesis |-> Get(st, "synthesis", <<>>)]
      [] stage = "quality_review" ->
            [quality_score |-> Get(st, "quality_score", 0),
             quality_issues |-> Get(st, "quality_issues", <<>>)]
      [] OTHER -> EmptyDict

(* the test left out: a named event goes out at every execution *)
NotYetAlways(name, em) == TRUE

(* the test of _translate_node that lets a named event out only once *)
NotYet(name, em) == name \notin em

(* the events _translate_node yields for one node output, and the emitted  *)
(* set after the last of them                                              *)
_translate_node(node_name, node_state, em) ==
    LET none == [events |-> <<>>, emitted |-> em]
        search == _sse_event("quran_search", [stage |-> "quran_search"])
    IN  IF node_name = "route_query" /\ NotYet("quran_search", em)
        THEN [events |-> <<search>>, emitted |-> em \cup {"quran_search"}]
        ELSE IF node_name = "quran_rag"
        THEN LET first == IF NotYet("quran_search", em) THEN <<search>> ELSE <<>>
                 verses == Get(node_state, "verses", <<>>)
                 is_found == verses # <<>> /\ NotYet("quran_found", em)
             IN  [events |->
                     first \o
                     (IF is_found
                      THEN <<_sse_event("quran_found",
                                        [stage |-> "quran_found",
                                         verses |-> verses])>>
                      ELSE <<>>),
                  emitted |->
                     em \cup {"quran_search"}
                        \cup (IF is_found THEN {"quran_found"} ELSE {})]
        ELSE IF node_name = "linguistic" /\ NotYet("linguistic", em)
        THEN [events |-> <<_sse_event("linguistic", [stage |-> "linguistic"])>>,
              emitted |-> em \cup {"linguistic"}]
        ELSE IF node_name \in {"science", "humanities"}
        THEN LET findings ==
                    Get(node_state,
                        IF node_name = "science" THEN "science_findings"
                        ELSE "humanities_findings", <<>>)
             IN  [events |->
                     [i \in 1..Len(findings) |->
                        _sse_event("science_finding",
                                   [stage |-> "science_finding",
                                    finding |-> findings[i]])],
                  emitted |-> em]
        ELSE IF node_name = "tafseer"
        THEN IF NotYet("tafseer", em)
             THEN [events |-> <<_sse_event("tafseer", [stage |-> "tafseer"])>>,
                   emitted |-> em \cup {"tafseer"}]
             ELSE none
        ELSE IF node_name = "synthesis"
        THEN LET synthesis_text == Get(node_state, "synthesis", <<>>)
             IN  IF synthesis_text # <<>> /\ NotYet("synthesis", em)
                 THEN [events |->
                          <<_sse_event("synthesis_token",
                                       [stage |-> "synthesis_token",
                                        token |-> synthesis_text])>>,
                       emitted |-> em \cup {"synthesis"}]
                 ELSE none
        ELSE IF node_name = "quality_review"
        THEN IF NotYet("quality_done", em)
             THEN [events |->
                      <<_sse_event("quality_done",
                                   [stage |-> "quality_done",
                                    score |-> Get(node_state, "quality_score", 0)])>>,
                   emitted |-> em \cup {"quality_done"}]
             ELSE none
        ELSE none

(* the complete event with the findings of both kinds in one count *)
_complete_eventOneCount(st, session_id) ==
    _sse_event("complete",
        [stage |-> "complete",
         session_id |-> session_id,
         synthesis |-> Get(st, "synthesis", <<>>),
         confidence_tier |-> Get(st, "confidence_tier", ""),
         quality_score |-> Get(st, "quality_score", 0),
         quality_issues |-> Get(st, "quality_issues", <<>>),
         verses_count |-> Len(Get(st, "verses", <<>>)),
         science_findings_count |->
            Len(Get(st, "science_findings", <<>>))
               + Len(Get(st, "humanities_findings", <<>>)),
         humanities_findings_count |->
            Len(Get(st, "humanities_findings", <<>>)),
         discovery_id |-> Get(st, "discovery_id", "None")])

_complete_event(st, session_id) ==
    _sse_event("complete",
        [stage |-> "complete",
         session_id |-> session_id,
         synthesis |-> Get(st, "synthesis", <<>>),
         confidence_tier |-> Get(st, "confidence_tier", ""),
         quality_score |-> Get(st, "quality_score", 0),
         quality_issues |-> Get(st, "quality_issues", <<>>),
         verses_count |-> Len(Get(st, "verses", <<>>)),
         science_findings_count |-> Len(Get(st, "science_findings", <<>>)),
         humanities_findings_count |->
            Len(Get(st, "humanities_findings", <<>>)),
         discovery_id |-> Get(st, "discovery_id", "None")])

-----------------------------------------------------------------------------
(* The streaming session: stream_discovery *)

Requests ==
    {[query |-> [science |-> 1, humanities |-> 0, tafseer |-> 0],
      disciplines |-> <<"physics", "psychology">>, mode |-> "guided"]}

initial_state(body) ==
    [query |-> body.query,
     disciplines |-> body.disciplines,
     mode |-> body.mode,
     iteration_count |-> 0,
     streaming_updates |-> EmptyList]

(* the explore tasks science_node starts: one for each discipline *)
ExploreTasksExtra(st) ==
    Len(Get(st, "disciplines", <<"physics", "biology">>)) + 1

ExploreTasks(st) == Len(Get(st, "disciplines", <<"physics", "biology">>))

(* the findings asyncio.gather hands back, in the order of the tasks *)
RECURSIVE Gathered(_, _)
Gathered(results, d) ==
    IF d \notin DOMAIN results THEN <<>>
    ELSE results[d] \o Gathered(results, d + 1)

(* whether synthesize calls db.save_discovery: only with a database *)
SaveCalled(saved) == IF saved = "no_db" THEN 0 ELSE 1

(* history of the empty results *)
Noted(seen, stage, result) ==
    IF result = <<>> THEN seen \cup {stage} ELSE seen

(* AutonomousDiscoveryScheduler: the topics, by their discipline *)
TOPICS_QUEUE ==
    <<"physics", "biology", "psychology", "economics", "astrophysics",
      "medicine", "management", "sociology">>

(* the jobs start() adds *)
JOBS == {"mcts_exploration", "numerical_scan", "weekly_report"}

(* the jobs whose coroutine awaits: _scan_numerical_patterns only prints, *)
(* so a run of it is over before anything else runs                       *)
AWAITING == {"mcts_exploration", "weekly_report"}

(* AutonomousDiscoveryScheduler.__init__ and what the scheduler keeps:    *)
(* the instances of each job that are running; with the history of the    *)
(* ticks, of the runs started, of the topics the runs took and of the     *)
(* runs that failed                                                       *)
SchedInit ==
    [topic_idx |-> 0,
     running |-> [j \in JOBS |-> 0],
     ticks |-> [j \in JOBS |-> 0],
     started |-> [j \in JOBS |-> 0],
     log |-> <<>>,
     failures |-> 0]

(* the nodes whose agent call can raise into the engine; science_node    *)
(* gathers with return_exceptions and the humanities agent catches what   *)
(* its call raises                                                        *)
RAISING ==
    {"quran_rag", "linguistic", "tafseer", "synthesis", "quality_review"}

(* the deployment of the sessions of Spec: a database that saves, an LLM  *)
(* whose synthesis names one tier, a search that may find nothing         *)
BaseEnv ==
    [texts |-> SynthesisTexts, saves |-> SaveOutcomes, verses |-> VerseLists,
     budget |-> MaxFindings]

(* the state when a request with one of the bodies arrives *)
Arrived(bodies, e) ==
    /\ engine \in {"compiled", "fallback"}
    /\ \E body \in bodies : state = initial_state(body)
    /\ env = e
    /\ sched = SchedInit
    /\ saved_ids = <<>>
    /\ ready = {"route_query"}
    /\ partials = EmptyDict
    /\ pc = "start"
    /\ pending = <<>>
    /\ events = <<>>
    /\ emitted = {}
    /\ accumulated_state = EmptyDict
    /\ replay_i = 1
    /\ runs = [n \in NODES |-> 0]
    /\ asked = <<>>
    /\ first_done = "none"
    /\ failed = "none"
    /\ found = 0
    /\ empties = {}
    /\ explored = EmptyDict
    /\ save_calls = 0
    /\ duo = [c \in 1..2 |-> [phase |-> "idle"]]
    /\ checkpoints = EmptyDict

Init == Arrived(Requests, BaseEnv)

(* event_generator yields session_start, then picks the source *)
SessionStart ==
    /\ pc = "start"
    /\ events' = Append(events, _sse_event("session_start",
                                           [session_id |-> SESSION_ID]))
    /\ pc' = "engine"
    /\ UNCHANGED <<engine, state, ready, partials, pending, emitted,
                   accumulated_state, replay_i, runs, asked, first_done, failed,
                   found, empties, explored, save_calls, duo, checkpoints,
                   env, sched, saved_ids>>

(* node n of the current step returns upd.  The last node of the step      *)
(* closes it: the updates are merged and the next step is chosen.  Over    *)
(* the compiled graph _stream_from_graph receives the chunk {n: upd};      *)
(* _FallbackGraph.ainvoke only returns after kg_update.                    *)
FinishFrom(st, acc, n, upd) ==
    /\ pc = "engine"
    /\ n \in ready
    /\ \E snapshot \in {st}, update \in {upd} :
          LET parts == [k \in DOMAIN partials \cup {n} |->
                          IF k = n THEN update ELSE partials[k]]
              last == ready = {n}
              tr == _translate_node(n, update, emitted)
          IN  /\ state' = IF last THEN MergeStep(snapshot, parts) ELSE snapshot
              /\ ready' = IF ~last THEN ready \ {n}
                          ELSE IF engine = "compiled"
                               THEN CompiledEdges(DOMAIN parts, state')
                               ELSE FallbackOrder(DOMAIN parts)
              /\ partials' = IF last THEN EmptyDict ELSE parts
              /\ runs' = [runs EXCEPT ![n] = @ + 1]
              /\ first_done' = IF ready = FANOUT THEN n ELSE first_done
              /\ IF engine = "compiled"
                 THEN /\ accumulated_state' = Update(acc, update)
                      /\ pending' = tr.events
                      /\ emitted' = tr.emitted
                      /\ pc' = IF pending' # <<>> THEN "yield" ELSE "engine"
                 ELSE /\ pc' = IF ready' = {} THEN "replay" ELSE "engine"
                      /\ UNCHANGED <<accumulated_state, pending, emitted>>
              /\ UNCHANGED <<engine, events, replay_i, failed>>

Finish(n, upd) == FinishFrom(state, accumulated_state, n, upd)

RouteQuery ==
    /\ Finish("route_query", route_query(state))
    /\ UNCHANGED <<asked, found, empties, explored, save_calls, duo, checkpoints,
                   env, sched, saved_ids>>

QuranRag ==
    /\ \E result \in RagResults(env.verses) :
          /\ Finish("quran_rag", quran_rag_node(state, result))
          /\ empties' = Noted(empties, "quran_rag", result.verses)
    /\ UNCHANGED <<asked, found, explored, save_calls, duo, checkpoints,
                   env, sched, saved_ids>>

Linguistic ==
    /\ \E result \in LinguisticResults(Get(state, "verses", <<>>)) :
          Finish("linguistic", linguistic_node(state, result))
    /\ UNCHANGED <<asked, found, empties, explored, save_calls, duo, checkpoints,
                   env, sched, saved_ids>>

(* one of the explore tasks science_node has started returns *)
Explore ==
    /\ pc = "engine"
    /\ "science" \in ready
    /\ \E d \in (1..ExploreTasks(state)) \ DOMAIN explored :
          \E r \in ScienceFindingLists :
             /\ found + Len(r) <= env.budget
             /\ explored' = [k \in DOMAIN explored \cup {d} |->
                                IF k = d THEN r ELSE explored[k]]
             /\ found' = found + Len(r)
    /\ UNCHANGED <<engine, state, ready, partials, pc, pending, events,
                   emitted, accumulated_state, replay_i, runs, asked,
                   first_done, failed, empties, save_calls, duo, checkpoints,
                   env, sched, saved_ids>>

(* science_node returns once asyncio.gather has every explore result *)
Science ==
    /\ DOMAIN explored = 1..ExploreTasks(state)
    /\ \E all_findings \in {Gathered(explored, 1)} :
          /\ Finish("science", science_node(state, all_findings))
          /\ empties' = Noted(empties, "science", all_findings)
    /\ explored' = EmptyDict
    /\ UNCHANGED <<asked, found, save_calls, duo, checkpoints,
                   env, sched, saved_ids>>

Tafseer ==
    /\ \E result \in TafseerResults(Get(state, "verses", <<>>)),
          fetch \in BOOLEAN :
          /\ fetch => CanFetch(Get(state, "verses", <<>>))
          /\ IF fetch
             THEN FinishFrom(WithFetched(state),
                             WithFetched(accumulated_state),
                             "tafseer", tafseer_node(state, result))
             ELSE Finish("tafseer", tafseer_node(state, result))
    /\ UNCHANGED <<asked, found, empties, explored, save_calls, duo, checkpoints,
                   env, sched, saved_ids>>

Humanities ==
    /\ \E result \in HumanitiesFindingLists :
          /\ found + Len(result) <= env.budget
          /\ Get(state, "verses", <<>>) = <<>> => result = <<>>
          /\ Finish("humanities", humanities_node(state, result))
          /\ found' = found + Len(result)
          /\ empties' = Noted(empties, "humanities", result)
    /\ UNCHANGED <<asked, explored, save_calls, duo, checkpoints,
                   env, sched, saved_ids>>

Synthesis ==
    /\ \E text \in env.texts, saved \in env.saves :
          /\ Finish("synthesis", synthesis_node(state, synthesize(text, saved)))
          /\ empties' = Noted(empties, "synthesis", text)
          /\ save_calls' = save_calls + SaveCalled(saved)
          /\ saved_ids' = IF SaveCalled(saved) = 1
                          THEN Append(saved_ids, saved) ELSE saved_ids
    /\ UNCHANGED <<asked, found, explored, duo, checkpoints, env, sched>>

QualityReview ==
    \E in \in ReviewInputs :
        LET result == review(in.score, in.issues)
        IN  /\ Finish("quality_review", quality_review_node(state, result))
            /\ asked' = Append(asked, result.should_deepen)
            /\ UNCHANGED <<found, empties, explored, save_calls, duo, checkpoints,
                   env, sched, saved_ids>>

KgUpdate ==
    /\ Finish("kg_update", kg_update_node(state))
    /\ UNCHANGED <<asked, found, empties, explored, save_calls, duo, checkpoints,
                   env, sched, saved_ids>>

(* the exception swallowed without an event *)
OnExceptionSwallowed(sent, message) == sent

(* the except clause of event_generator *)
OnException(sent, message) ==
    Append(sent, _sse_event("error", [error |-> message]))

(* a node raises: neither engine catches, the exception leaves astream or  *)
(* ainvoke and reaches the except clause of event_generator                *)
NodeRaises ==
    \E n \in ready \cap RAISING :
        /\ pc = "engine"
        /\ failed' = n
        /\ ready' = {}
        /\ partials' = EmptyDict
        /\ events' = OnException(events, <<"exception in", n>>)
        /\ pc' = "closed"
        /\ UNCHANGED <<engine, state, pending, emitted, accumulated_state,
                       replay_i, runs, asked, first_done, found, empties,
                       explored, save_calls, duo, checkpoints,
                   env, sched, saved_ids>>

(* the consumer takes the next event of the chunk *)
Yield ==
    /\ pc = "yield"
    /\ events' = Append(events, Head(pending))
    /\ pending' = Tail(pending)
    /\ pc' = IF Tail(pending) # <<>> THEN "yield"
             ELSE IF engine = "compiled" THEN "engine" ELSE "replay"
    /\ UNCHANGED <<engine, state, ready, partials, emitted, accumulated_state,
                   replay_i, runs, asked, first_done, failed,
                   found, empties, explored, save_calls, duo, checkpoints,
                   env, sched, saved_ids>>

(* _stream_from_fallback translates the next record of the returned log *)
ReplayNext ==
    /\ engine = "fallback"
    /\ pc = "replay"
    /\ replay_i <= Len(Log(state))
    /\ LET update == Log(state)[replay_i]
           stage == Get(update, "stage", "")
           tr == _translate_node(stage, Update(update, _extract(state, stage)),
                                 emitted)
       IN  /\ pending' = tr.events
           /\ emitted' = tr.emitted
           /\ pc' = IF tr.events # <<>> THEN "yield" ELSE "replay"
    /\ replay_i' = replay_i + 1
    /\ UNCHANGED <<engine, state, ready, partials, events, accumulated_state,
                   runs, asked, first_done, failed,
                   found, empties, explored, save_calls, duo, checkpoints,
                   env, sched, saved_ids>>

(* the final yield of _stream_from_graph and of _stream_from_fallback *)
Complete ==
    /\ IF engine = "compiled"
       THEN /\ pc = "engine"
            /\ ready = {}
            /\ events' = Append(events,
                                _complete_event(accumulated_state, SESSION_ID))
       ELSE /\ pc = "replay"
            /\ replay_i > Len(Log(state))
            /\ events' = Append(events, _complete_event(state, SESSION_ID))
    /\ pc' = "closed"
    /\ UNCHANGED <<engine, state, ready, partials, pending, emitted,
                   accumulated_state, replay_i, runs, asked, first_done, failed,
                   found, empties, explored, save_calls, duo, checkpoints,
                   env, sched, saved_ids>>

(* the request is cancelled (client disconnect, timeout): CancelledError   *)
(* is raised at the await the generator is suspended in; it is not an      *)
(* Exception, so the except clause of event_generator does not run         *)
Cancel ==
    /\ pc \in {"engine", "yield", "replay"}
    /\ pc' = "cancelled"
    /\ UNCHANGED <<engine, state, ready, partials, pending, events, emitted,
                   accumulated_state, replay_i, runs, asked, first_done, failed,
                   found, empties, explored, save_calls, duo, checkpoints,
                   env, sched, saved_ids>>

Next ==
    \/ SessionStart
    \/ RouteQuery
    \/ QuranRag
    \/ Linguistic
    \/ Explore
    \/ Science
    \/ Tafseer
    \/ Humanities
    \/ Synthesis
    \/ QualityReview
    \/ KgUpdate
    \/ NodeRaises
    \/ Yield
    \/ ReplayNext
    \/ Complete
    \/ Cancel

Spec == Init /\ [][Next]_vars

-----------------------------------------------------------------------------
(* Properties *)

IterationCount == Get(state, "iteration_count", 0)

ShouldDeepenFlag == Get(state, "should_deepen", FALSE)

Count(name) == Cardinality({i \in 1..Len(events) : events[i].event = name})

LastEvent == IF events = <<>> THEN "" ELSE events[Len(events)].event

AllAsked == \A i \in 1..Len(asked) : asked[i]

(* C1: in every state of a session iteration_count is between 0 and       *)
(* MAX_ITERATIONS, and no step decreases it, whatever the reviews return   *)
(* and whichever engine runs.                                              *)
C1_IterationCountBounded ==
    /\ [](IterationCount >= 0 /\ IterationCount <= MAX_ITERATIONS)
    /\ [][IterationCount' >= IterationCount]_vars

C1_Witness ==
    /\ engine = "compiled"
    /\ IterationCount = MAX_ITERATIONS
    /\ runs["kg_update"] = 1

(* C2: whenever should_deepen is written true the count written with it is *)
(* below MAX_ITERATIONS; a review that asks to deepen when the count is    *)
(* MAX_ITERATIONS - 1 writes the count MAX_ITERATIONS and the flag false,  *)
(* the conditional edge answers "complete" and quran_rag never runs again. *)
C2_DeepenOnlyBelowBound ==
    /\ [](ShouldDeepenFlag => IterationCount < MAX_ITERATIONS)
    /\ [](IterationCount = MAX_ITERATIONS => should_deepen(state) = "complete")
    /\ [][(/\ Len(asked') = Len(asked) + 1
           /\ asked'[Len(asked')]
           /\ IterationCount = MAX_ITERATIONS - 1)
          => (/\ IterationCount' = MAX_ITERATIONS
              /\ "should_deepen" \in DOMAIN state'
              /\ ~state'["should_deepen"]
              /\ ready' = {"kg_update"})]_vars
    /\ [][IterationCount = MAX_ITERATIONS
          => runs'["quran_rag"] = runs["quran_rag"]]_vars

C2_Witness ==
    /\ asked = <<TRUE, TRUE, TRUE>>
    /\ IterationCount = MAX_ITERATIONS
    /\ ~ShouldDeepenFlag
    /\ runs["quran_rag"] = MAX_ITERATIONS
    /\ runs["kg_update"] = 1

PASS_NODES ==
    {"quran_rag", "linguistic", "science", "tafseer", "humanities",
     "synthesis", "quality_review"}

(* C3: when every review asks to deepen, a run that reaches kg_update has  *)
(* executed each stage of the pass three times and ends with               *)
(* iteration_count = 3, with either engine.                                *)
C3_ThreePassesWhenAlwaysAsked ==
    (runs["kg_update"] = 1 /\ AllAsked)
        => (/\ \A n \in PASS_NODES : runs[n] = MAX_ITERATIONS
            /\ IterationCount = MAX_ITERATIONS)

TERMINAL == {"complete", "error"}

StreamOver == pc \in {"closed", "cancelled"}

(* C4: the stream starts with the only session_start, has one terminal     *)
(* event (complete or error) once it is over, and nothing follows the      *)
(* terminal event.                                                         *)
C4_OneStartOneTerminal ==
    /\ events # <<>> => events[1].event = "session_start"
    /\ Count("session_start") <= 1
    /\ Count("complete") + Count("error") <= 1
    /\ \A i \in 1..(Len(events) - 1) : events[i].event \notin TERMINAL
    /\ StreamOver => LastEvent \in TERMINAL

ONCE_EVENTS ==
    {"session_start", "quran_search", "quran_found", "linguistic", "tafseer",
     "quality_done", "complete", "error"}

(* C5: each named event other than synthesis_token and science_finding is  *)
(* in the stream at most once, however many passes the run makes.          *)
C5_NamedEventsAtMostOnce == \A name \in ONCE_EVENTS : Count(name) <= 1

C5_Witness ==
    /\ engine = "compiled"
    /\ runs["linguistic"] = MAX_ITERATIONS
    /\ runs["quran_rag"] = MAX_ITERATIONS
    /\ Count("science_finding") >= 2
    /\ Count("quran_found") = 1
    /\ LastEvent = "complete"

(* the named event of every stage that returned has been sent *)
ProgressSent ==
    /\ runs["route_query"] >= 1 => Count("quran_search") = 1
    /\ runs["linguistic"] >= 1 => Count("linguistic") = 1
    /\ runs["tafseer"] >= 1 => Count("tafseer") = 1
    /\ runs["quality_review"] >= 1 => Count("quality_done") = 1

(* when a node raises: the events sent so far stay, one error event with   *)
(* the exception's message is added as the last event, no complete event   *)
(* is sent and the stream is closed                                        *)
ErrorIsLast ==
    /\ pc = "closed"
    /\ pending = <<>>
    /\ LastEvent = "error"
    /\ events[Len(events)].data = [error |-> <<"exception in", failed>>]
    /\ Count("error") = 1
    /\ Count("complete") = 0

OneErrorAfterException ==
    /\ [](failed # "none" => ErrorIsLast)
    /\ [][(failed = "none" /\ failed' # "none") =>
            /\ Len(events') = Len(events) + 1
            /\ SubSeq(events', 1, Len(events)) = events]_vars
    /\ [][failed # "none" => UNCHANGED events]_vars

(* C6 as stated: when a node raises, with either engine, the stream has    *)
(* the progress events of the stages that returned before the failure,     *)
(* then one error event with the exception's message, and no complete.     *)
C6_ExceptionAfterProgress ==
    failed # "none" => (ErrorIsLast /\ ProgressSent)

(* the named event of every stage whose super-step was over has been sent *)
StepProgressSent ==
    /\ runs["route_query"] >= 1 => Count("quran_search") = 1
    /\ runs["linguistic"] >= 1 => Count("linguistic") = 1
    /\ runs["synthesis"] >= 1 => Count("tafseer") = 1
    /\ runs["quality_review"] >= 1 => Count("quality_done") = 1

(* C6 amended: the events already sent stay, one error event with the      *)
(* exception's message ends the stream and no complete is sent; on the     *)
(* incremental path the progress events of the super-steps that were over  *)
(* precede it, on the replay path the stream is session_start followed by  *)
(* the error, whatever stages returned before the failure.                 *)
C6_ExceptionAmended ==
    /\ OneErrorAfterException
    /\ [](failed # "none" =>
            /\ engine = "compiled" => StepProgressSent
            /\ engine = "fallback" => Len(events) = 2)

C6_Witness ==
    /\ engine = "fallback"
    /\ failed = "quality_review"
    /\ runs["synthesis"] = 1
    /\ LastEvent = "error"
    /\ Len(events) = 2

(* C7: a cancelled session ends with an error event whose reason is        *)
(* "cancelled" and has no complete event.                                  *)
C7_CancelEndsWithCancelledError ==
    pc = "cancelled" =>
        /\ LastEvent = "error"
        /\ events[Len(events)].data = [error |-> "cancelled"]
        /\ Count("complete") = 0

ClosedAfterLinguistic == pc = "cancelled" /\ LastEvent = "linguistic"

(* C8 as stated: when the client closes the connection after the           *)
(* linguistic event, the state of the session has no synthesis and an      *)
(* iteration_count of 0 or 1, on both paths.                               *)
C8_ClosedAfterLinguisticNoSynthesis ==
    ClosedAfterLinguistic =>
        /\ "synthesis" \notin DOMAIN state
        /\ IterationCount \in {0, 1}

(* C8 amended: after the close no stage runs and no event is sent; the     *)
(* iteration_count is 0 or 1; synthesis is absent on the incremental path  *)
(* only, on the replay path every stage has run before the first progress  *)
(* event and synthesis is present.                                         *)
C8_ClosedAfterLinguisticAmended ==
    /\ [](ClosedAfterLinguistic =>
            /\ IterationCount \in {0, 1}
            /\ engine = "compiled" =>
                  /\ "synthesis" \notin DOMAIN state
                  /\ runs["synthesis"] = 0
                  /\ runs["quality_review"] = 0
                  /\ runs["kg_update"] = 0
            /\ engine = "fallback" =>
                  /\ "synthesis" \in DOMAIN state
                  /\ \A n \in NODES : runs[n] = 1)
    /\ [][pc = "cancelled" => UNCHANGED <<runs, events, state>>]_vars

C8_Witness ==
    /\ ClosedAfterLinguistic
    /\ engine = "fallback"
    /\ "synthesis" \in DOMAIN state

(* C9: a node that raises does not abort the run: the stages after it      *)
(* still execute and the run reaches kg_update.                            *)
C9_FailedStageDoesNotAbort ==
    (failed # "none" /\ pc = "closed") =>
        /\ runs["kg_update"] = 1
        /\ runs["synthesis"] >= 1
        /\ runs["quality_review"] >= 1

-----------------------------------------------------------------------------
(* order of the events *)

FanoutEvents ==
    SelectSeq(events, LAMBDA e : e.event \in {"science_finding", "tafseer"})

(* the stage an event of the fan-out comes from *)
StageOf(e) ==
    IF e.event = "tafseer" THEN "tafseer"
    ELSE IF e.data.finding[1] = "h" THEN "humanities" ELSE "science"

(* rank of the stage names in lexicographic order *)
NameRank(e) ==
    CASE StageOf(e) = "humanities" -> 1
      [] StageOf(e) = "science" -> 2
      [] StageOf(e) = "tafseer" -> 3

(* rank of the stages in the order _FallbackGraph gathers and merges them *)
CallRank(e) ==
    CASE StageOf(e) = "science" -> 1
      [] StageOf(e) = "tafseer" -> 2
      [] StageOf(e) = "humanities" -> 3

(* rank of the super-step an event comes from *)
StepRank(e) ==
    CASE e.event = "session_start" -> 0
      [] e.event = "quran_search" -> 1
      [] e.event = "quran_found" -> 2
      [] e.event = "linguistic" -> 3
      [] e.event \in {"science_finding", "tafseer"} -> 4
      [] e.event = "synthesis_token" -> 5
      [] e.event = "quality_done" -> 6
      [] e.event \in TERMINAL -> 7

Descents(seq, Rank(_)) ==
    Cardinality({i \in 1..(Len(seq) - 1) : Rank(seq[i]) > Rank(seq[i + 1])})

LoopBacks == IF runs["quran_rag"] > 1 THEN runs["quran_rag"] - 1 ELSE 0

(* super-step order: the rank only goes down when a new pass begins *)
StepOrder == Descents(events, StepRank) <= LoopBacks

-----------------------------------------------------------------------------
(* the stream of a run whose stages all return something *)

EventNames == [i \in 1..Len(events) |-> events[i].event]

RECURSIVE IsSubseq(_, _)
IsSubseq(p, q) ==
    IF p = <<>> THEN TRUE
    ELSE IF q = <<>> THEN FALSE
    ELSE IF Head(p) = Head(q) THEN IsSubseq(Tail(p), Tail(q))
    ELSE IsSubseq(p, Tail(q))

FULL_STREAM ==
    <<"session_start", "quran_search", "quran_found", "linguistic",
      "science_finding", "tafseer", "synthesis_token", "quality_done",
      "complete">>

TAFSEER_FIRST ==
    <<"session_start", "quran_search", "quran_found", "linguistic",
      "tafseer", "science_finding", "synthesis_token", "quality_done",
      "complete">>

Completed == pc = "closed" /\ LastEvent = "complete"

-----------------------------------------------------------------------------
(* The incremental path as a function of the stage results: the chunks the *)
(* compiled graph hands to _stream_from_graph when every execution of a    *)
(* stage returns the same result and the branches of the fan-out finish    *)
(* in the order science, tafseer, humanities, and the events               *)
(* _stream_from_graph makes of them.                                       *)

RECURSIVE CompiledRun(_, _)
CompiledRun(st, g) ==
    LET rag == quran_rag_node(st, g.quran_rag)
        s1 == Update(st, rag)
        lin == linguistic_node(s1, g.linguistic)
        s2 == Update(s1, lin)
        sci == science_node(s2, g.science)
        taf == tafseer_node(s2, g.tafseer)
        hum == humanities_node(s2, g.humanities)
        s3 == Update(Update(Update(s2, sci), taf), hum)
        syn == synthesis_node(s3, g.synthesis)
        s4 == Update(s3, syn)
        rev == quality_review_node(s4, g.quality_review)
        s5 == Update(s4, rev)
        pass == <<[node |-> "quran_rag", update |-> rag],
                  [node |-> "linguistic", update |-> lin],
                  [node |-> "science", update |-> sci],
                  [node |-> "tafseer", update |-> taf],
                  [node |-> "humanities", update |-> hum],
                  [node |-> "synthesis", update |-> syn],
                  [node |-> "quality_review", update |-> rev]>>
    IN  IF should_deepen(s5) = "deepen" THEN pass \o CompiledRun(s5, g)
        ELSE Append(pass, [node |-> "kg_update", update |-> kg_update_node(s5)])

RECURSIVE StreamFromGraph(_, _, _)
StreamFromGraph(chunks, em, acc) ==
    IF chunks = <<>> THEN <<_complete_event(acc, SESSION_ID)>>
    ELSE LET c == Head(chunks)
             tr == _translate_node(c.node, c.update, em)
         IN  tr.events \o
             StreamFromGraph(Tail(chunks), tr.emitted, Update(acc, c.update))

IncrementalStream(init, g) ==
    LET first == route_query(init)
        chunks == <<[node |-> "route_query", update |-> first]>>
                      \o CompiledRun(Update(init, first), g)
    IN  <<_sse_event("session_start", [session_id |-> SESSION_ID])>>
            \o StreamFromGraph(chunks, {}, EmptyDict)

(* the verses as the search returned them *)
Unfetched(verses) ==
    [i \in DOMAIN verses |-> [verses[i] EXCEPT !.tafseers = <<>>]]

(* what the stages of the finished single pass of _FallbackGraph returned *)
PassResults ==
    [quran_rag |-> [verses |-> Unfetched(state["verses"]),
                    tafseer_context |-> state["tafseer_context"],
                    source |-> "mock"],
     linguistic |-> state["linguistic_analysis"],
     science |-> state["science_findings"],
     tafseer |-> state["tafseer_findings"],
     humanities |-> state["humanities_findings"],
     synthesis |-> [synthesis |-> state["synthesis"],
                    confidence_tier |-> state["confidence_tier"],
                    discovery_id |-> state["discovery_id"]],
     quality_review |-> [quality_score |-> state["quality_score"],
                         quality_issues |-> state["quality_issues"],
                         should_deepen |-> asked[1]]]

(* the state the request of the session started from *)
RequestState ==
    [query |-> state["query"],
     disciplines |-> state["disciplines"],
     mode |-> state["mode"],
     iteration_count |-> 0,
     streaming_updates |-> EmptyList]

(* C12: the stream of a completed session on the replay path is, event for *)
(* event and payload for payload, the stream the incremental path makes    *)
(* from the same initial state and the same stage results, also when the   *)
(* review asks to deepen.                                                  *)
C12_PathsSameStream ==
    (engine = "fallback" /\ Completed) =>
        events = IncrementalStream(RequestState, PassResults)

(* the two streams of a run whose review does not ask to deepen *)
PathsSameStreamWithoutDeepening ==
    (/\ engine = "fallback"
     /\ Completed
     /\ ~asked[1]
     /\ ~has_tafseers(state["verses"])) =>
        events = IncrementalStream(RequestState, PassResults)

-----------------------------------------------------------------------------
(* the number of records in the log of a state, copies counted *)
LogSize(st) ==
    IF engine = "fallback" THEN Len(Log(st)) ELSE BagCardinality(Log(st))

RECURSIVE SumRuns(_)
SumRuns(names) ==
    IF names = {} THEN 0
    ELSE LET n == CHOOSE x \in names : TRUE
         IN  runs[n] + SumRuns(names \ {n})

(* stage executions whose super-step has been merged into the state; the *)
(* results of an unfinished step are held in partials                    *)
MergedExecutions == SumRuns(DOMAIN runs) - Cardinality(DOMAIN partials)

(* C13: under both engines every merged super-step adds to                 *)
(* streaming_updates exactly one record per stage execution of the step:   *)
(* the log holds as many records as stage executions have been merged.     *)
C13_OneRecordPerExecution ==
    failed = "none" => LogSize(state) = MergedExecutions

(* the same count for the single pass of _FallbackGraph alone *)
FallbackOneRecordPerExecution ==
    (engine = "fallback" /\ failed = "none") =>
        LogSize(state) = MergedExecutions

-----------------------------------------------------------------------------
(* C14: no stage modifies the snapshot it receives, the verse records in  *)
(* it included: the verses of the state change only when the update of a  *)
(* verse search is merged.                                                *)
C14_StagesLeaveSnapshotAlone ==
    [][Get(state', "verses", <<>>) # Get(state, "verses", <<>>)
          => runs'["quran_rag"] # runs["quran_rag"]]_vars

-----------------------------------------------------------------------------
(* Two callers of one graph object.  The graph, its node closures and its *)
(* MemorySaver are shared; the state an orchestration works on, and the   *)
(* emitted set and accumulated_state of its adapter, are locals of the    *)
(* call.  Every stage of a session returns what the session's script      *)
(* says, and the branches of its fan-out finish in the script's order.    *)

ThreadIds == {"t1", "t2"}

(* uuid.uuid4(): an id no session has *)
MintConstant(used) == "t1"

Mint(used) == CHOOSE t \in ThreadIds : t \notin used

(* config = {"configurable": {"thread_id": session_id}} *)
ThreadKeyShared(tid) == "t1"

ThreadKey(tid) == tid

FanoutOrders ==
    {<<"science", "tafseer", "humanities">>,
     <<"tafseer", "humanities", "science">>}

LongestVerses == CHOOSE v \in VerseLists : Len(v) = MaxVerses

Scripts ==
    {[quran_rag |-> [verses |-> LongestVerses,
                     tafseer_context |-> <<"ctx">>, source |-> "mock"],
      order |-> o,
      linguistic |-> [roots |-> <<"root">>],
      science |-> <<<<"s", 1>>>>,
      tafseer |-> [consensus_view |-> <<"view">>],
      humanities |-> <<>>,
      synthesis |-> synthesize(<<"tier_3">>, "d1"),
      quality_review |-> review(in.score, in.issues)] :
        o \in FanoutOrders, in \in ReviewInputs}

(* the partial update of node n on the snapshot st *)
NodeUpdate(n, st, g) ==
    CASE n = "route_query" -> route_query(st)
      [] n = "quran_rag" -> quran_rag_node(st, g.quran_rag)
      [] n = "linguistic" -> linguistic_node(st, g.linguistic)
      [] n = "science" -> science_node(st, g.science)
      [] n = "tafseer" -> tafseer_node(st, g.tafseer)
      [] n = "humanities" -> humanities_node(st, g.humanities)
      [] n = "synthesis" -> synthesis_node(st, g.synthesis)
      [] n = "quality_review" -> quality_review_node(st, g.quality_review)
      [] n = "kg_update" -> kg_update_node(st)

(* A run of the compiled graph that finds a checkpoint under its thread  *)
(* id resumes that thread: it does not start from its input alone.  What  *)
(* the library then does is not in this repository; the model records     *)
(* that the run resumed and follows it no further.                        *)
(* _FallbackGraph.ainvoke ignores config.                                 *)
Resumes(key) == engine = "compiled" /\ key \in DOMAIN checkpoints

Callers == DOMAIN duo

InFlightIds == {duo[d].tid : d \in {x \in Callers : duo[x].phase # "idle"}}

Running(d) == duo[d].phase \in {"running", "returned"}

Begin(c, origin, tid, body, g) ==
    duo' = [duo EXCEPT ![c] =
              [phase |-> IF Resumes(ThreadKey(tid)) THEN "resumed"
                         ELSE "running",
               origin |-> origin,
               tid |-> tid,
               joined |-> \E d \in Callers \ {c} :
                             Running(d) /\ duo[d].tid = tid,
               input |-> initial_state(body),
               script |-> g,
               state |-> initial_state(body),
               ready |-> {"route_query"},
               partials |-> EmptyDict,
               events |-> <<_sse_event("session_start",
                                       [session_id |-> tid])>>,
               emitted |-> {},
               accumulated_state |-> EmptyDict,
               executed |-> 0]]

(* POST /stream: stream_discovery mints the session id *)
DuoStream(c) ==
    /\ duo[c].phase = "idle"
    /\ \A d \in Callers : d < c => duo[d].phase # "idle"
    /\ \E body \in Requests, g \in Scripts :
          Begin(c, "stream", Mint(InFlightIds), body, g)
    /\ UNCHANGED <<engine, state, ready, partials, pc, pending, events,
                   emitted, accumulated_state, replay_i, runs, asked,
                   first_done, failed, found, empties, explored, save_calls,
                   checkpoints,
                   env, sched, saved_ids>>

(* a caller that passes its own thread id, as the tests do *)
DuoInvoke(c) ==
    /\ duo[c].phase = "idle"
    /\ \A d \in Callers : d < c => duo[d].phase # "idle"
    /\ \E body \in Requests, g \in Scripts, tid \in ThreadIds :
          Begin(c, "caller", tid, body, g)
    /\ UNCHANGED <<engine, state, ready, partials, pc, pending, events,
                   emitted, accumulated_state, replay_i, runs, asked,
                   first_done, failed, found, empties, explored, save_calls,
                   checkpoints,
                   env, sched, saved_ids>>

(* one stage execution of the orchestration of caller c, and, on the      *)
(* incremental path, the translation of its chunk                         *)
DuoStage(c, n) ==
    LET s == duo[c]
        upd == NodeUpdate(n, s.state, s.script)
        parts == [k \in DOMAIN s.partials \cup {n} |->
                    IF k = n THEN upd ELSE s.partials[k]]
        last == s.ready = {n}
        st2 == IF last THEN MergeStep(s.state, parts) ELSE s.state
        nxt == IF ~last THEN s.ready \ {n}
               ELSE IF engine = "compiled"
                    THEN CompiledEdges(DOMAIN parts, st2)
                    ELSE FallbackOrder(DOMAIN parts)
        tr == _translate_node(n, upd, s.emitted)
        turn == Cardinality(DOMAIN s.partials) + 1
        key == ThreadKey(s.tid)
    IN  /\ s.phase = "running"
        /\ n \in s.ready
        /\ n \in FANOUT => n = s.script.order[turn]
        /\ duo' = [duo EXCEPT ![c] =
              [s EXCEPT
                 !.state = st2,
                 !.ready = nxt,
                 !.partials = IF last THEN EmptyDict ELSE parts,
                 !.events = IF engine = "compiled" THEN @ \o tr.events ELSE @,
                 !.emitted = IF engine = "compiled" THEN tr.emitted ELSE @,
                 !.accumulated_state =
                    IF engine = "compiled" THEN Update(@, upd) ELSE @,
                 !.executed = @ + 1,
                 !.phase = IF nxt = {} THEN "returned" ELSE "running"]]
        /\ checkpoints' =
              IF engine = "compiled" /\ last
              THEN [k \in DOMAIN checkpoints \cup {key} |->
                      IF k = key THEN st2 ELSE checkpoints[k]]
              ELSE checkpoints
        /\ UNCHANGED <<engine, state, ready, partials, pc, pending, events,
                       emitted, accumulated_state, replay_i, runs, asked,
                       first_done, failed, found, empties, explored,
                       save_calls, env, sched, saved_ids>>

(* _stream_from_fallback: the events of the replay of the log of st *)
RECURSIVE ReplayEvents(_, _, _)
ReplayEvents(st, i, em) ==
    IF i > Len(Log(st)) THEN <<>>
    ELSE LET update == Log(st)[i]
             stage == Get(update, "stage", "")
             tr == _translate_node(stage,
                                   Update(update, _extract(st, stage)), em)
         IN  tr.events \o ReplayEvents(st, i + 1, tr.emitted)

(* the adapter of caller c after its engine has returned *)
DuoComplete(c) ==
    LET s == duo[c]
    IN  /\ s.phase = "returned"
        /\ duo' = [duo EXCEPT ![c] =
              [s EXCEPT
                 !.events =
                    IF engine = "compiled"
                    THEN Append(@, _complete_event(s.accumulated_state, s.tid))
                    ELSE @ \o ReplayEvents(s.state, 1, {})
                           \o <<_complete_event(s.state, s.tid)>>,
                 !.phase = "done"]]
        /\ UNCHANGED <<engine, state, ready, partials, pc, pending, events,
                       emitted, accumulated_state, replay_i, runs, asked,
                       first_done, failed, found, empties, explored,
                       save_calls, checkpoints,
                   env, sched, saved_ids>>

DuoNext ==
    \/ \E c \in Callers : DuoStream(c)
    \/ \E c \in Callers : DuoInvoke(c)
    \/ \E c \in Callers : \E n \in NODES : DuoStage(c, n)
    \/ \E c \in Callers : DuoComplete(c)

DuoSpec == Init /\ [][DuoNext]_vars

-----------------------------------------------------------------------------
(* What a session produces when it runs alone: its orchestration from its *)
(* input with its script, and the stream of its adapter.                  *)

RECURSIVE TranslateAll(_, _, _, _)
TranslateAll(seq, upds, em, acc) ==
    IF seq = <<>> THEN [events |-> <<>>, emitted |-> em, acc |-> acc]
    ELSE LET n == Head(seq)
             tr == _translate_node(n, upds[n], em)
             rest == TranslateAll(Tail(seq), upds, tr.emitted,
                                  Update(acc, upds[n]))
         IN  [rest EXCEPT !.events = tr.events \o @]

RECURSIVE SoloRun(_, _, _, _, _)
SoloRun(st, step, g, em, acc) ==
    LET seq == IF step = FANOUT THEN g.order
               ELSE <<CHOOSE n \in step : TRUE>>
        upds == [n \in step |-> NodeUpdate(n, st, g)]
        st2 == MergeStep(st, upds)
        tr == TranslateAll(seq, upds, em, acc)
        nxt == IF engine = "compiled" THEN CompiledEdges(step, st2)
               ELSE FallbackOrder(step)
    IN  IF nxt = {} THEN [state |-> st2, events |-> tr.events, acc |-> tr.acc]
        ELSE LET rest == SoloRun(st2, nxt, g, tr.emitted, tr.acc)
             IN  [rest EXCEPT !.events = tr.events \o @]

Solo(input, g, tid) ==
    LET r == SoloRun(input, {"route_query"}, g, {}, EmptyDict)
    IN  [state |-> r.state,
         events |->
            <<_sse_event("session_start", [session_id |-> tid])>>
            \o (IF engine = "compiled"
                THEN Append(r.events, _complete_event(r.acc, tid))
                ELSE ReplayEvents(r.state, 1, {})
                       \o <<_complete_event(r.state, tid)>>)]

AsAlone(c) ==
    LET alone == Solo(duo[c].input, duo[c].script, duo[c].tid)
    IN  /\ duo[c].state = alone.state
        /\ duo[c].events = alone.events

Streams == \A c \in Callers : duo[c].phase # "idle" /\ duo[c].origin = "stream"

(* C15: two sessions of POST /stream on one graph object are independent: *)
(* neither resumes the other's thread, and under every interleaving of    *)
(* their stage executions each ends with the terminal state and the event *)
(* sequence it produces when it runs alone.                               *)
C15_SessionsIndependent ==
    Streams => \A c \in Callers :
                  /\ duo[c].phase # "resumed"
                  /\ duo[c].phase = "done" => AsAlone(c)

(* both sessions ran interleaved to the end, one of them for three passes *)
C15_Witness ==
    /\ Streams
    /\ \A c \in Callers : duo[c].phase = "done" /\ AsAlone(c)
    /\ engine = "compiled"
    /\ duo[1].state["iteration_count"] = 3
    /\ duo[2].state["iteration_count"] = 1
    /\ duo[1].script.order # duo[2].script.order

-----------------------------------------------------------------------------
-----------------------------------------------------------------------------
(* C17: the super-step barrier.  Synthesis of a pass is started only when *)
(* science, tafseer and humanities of the pass have all finished and      *)
(* their updates are merged, and these three are started only when        *)
(* linguistic of the pass has finished.                                   *)
C17_SuperStepBarrier ==
    /\ "synthesis" \in ready =>
          /\ ready = {"synthesis"}
          /\ partials = EmptyDict
          /\ \A f \in FANOUT :
                /\ runs[f] = runs["synthesis"] + 1
                /\ (f \o "_findings") \in DOMAIN state
    /\ \A f \in FANOUT :
          f \in ready =>
             /\ ready \subseteq FANOUT
             /\ runs["linguistic"] = runs[f] + 1
             /\ "linguistic_analysis" \in DOMAIN state


(* the second synthesis of a session is about to start, after a fan-out   *)
(* whose humanities branch finished first                                 *)
C17_Witness ==
    /\ ready = {"synthesis"}
    /\ runs["synthesis"] = 1
    /\ \A f \in FANOUT : runs[f] = 2
    /\ first_done = "humanities"
    /\ partials = EmptyDict

-----------------------------------------------------------------------------
(* the tasks of the session that are running: the stages of the current   *)
(* step, with the explore tasks of science_node that have not finished in *)
(* the place of the science stage                                         *)
InFlight ==
    IF pc \in {"cancelled", "closed"} THEN 0
    ELSE Cardinality(ready \ {"science"})
         + (IF "science" \in ready
            THEN ExploreTasks(state) - Cardinality(DOMAIN explored)
            ELSE 0)

Max(a, b) == IF a >= b THEN a ELSE b

(* C18 as stated: the tasks in flight are never more than                 *)
(* max(3, |disciplines|).                                                 *)
C18_InFlightAtMostMax ==
    InFlight <= Max(3, Len(state["disciplines"]))

(* C18, amended: the tasks in flight are never more than                  *)
(* |disciplines| + 2: one explore task per discipline, with tafseer and   *)
(* humanities.                                                            *)
C18_InFlightAmended ==
    InFlight <= Len(state["disciplines"]) + 2

(* the fan-out has started: every explore task, tafseer and humanities *)
C18_Witness ==
    /\ ready = FANOUT
    /\ explored = EmptyDict
    /\ InFlight = Len(state["disciplines"]) + 2
    /\ InFlight > 3

-----------------------------------------------------------------------------
(* A session in which every stage call returns and the client stays: no   *)
(* stage raises and no request is cancelled, and a step that can be taken *)
(* is taken.                                                              *)
LiveNext ==
    \/ SessionStart
    \/ RouteQuery
    \/ QuranRag
    \/ Linguistic
    \/ Explore
    \/ Science
    \/ Tafseer
    \/ Humanities
    \/ Synthesis
    \/ QualityReview
    \/ KgUpdate
    \/ Yield
    \/ ReplayNext
    \/ Complete

LiveSpec == Init /\ [][LiveNext]_vars /\ WF_vars(LiveNext)

(* the engine has returned: kg_update has run, once, after the final      *)
(* quality review of at most three, and no stage is left to run           *)
Returned ==
    /\ runs["kg_update"] = 1
    /\ ready = {}
    /\ partials = EmptyDict
    /\ runs["quality_review"] \in 1..MAX_ITERATIONS
    /\ Len(asked) = runs["quality_review"]

(* kg_update runs at most once, after a quality review that was the last, *)
(* and no stage runs after it                                             *)
KgUpdateLast ==
    /\ runs["quality_review"] <= MAX_ITERATIONS
    /\ runs["kg_update"] <= 1
    /\ runs["kg_update"] = 1 => Returned

-----------------------------------------------------------------------------
(* the quality gate has decided to terminate: the last review is merged   *)
(* and the conditional edge after it leads to kg_update (the fallback     *)
(* has no edge back)                                                      *)
GateTerminated ==
    /\ runs["quality_review"] >= 1
    /\ Len(asked) = runs["quality_review"]
    /\ engine = "compiled" => should_deepen(state) = "complete"

(* C20 as stated: within one session save_discovery is called at most     *)
(* once, and only after the quality gate has decided to terminate; a      *)
(* synthesis pass that is followed by a loop-back writes no record.       *)
C20_SaveOnceAfterGate ==
    /\ save_calls <= 1
    /\ save_calls >= 1 => GateTerminated

(* what the code does: synthesize calls save_discovery in every synthesis *)
(* pass, before the review of that pass                                   *)
SavedInEverySynthesis ==
    /\ save_calls = runs["synthesis"]
    /\ [][save_calls' # save_calls =>
            /\ runs'["synthesis"] = runs["synthesis"] + 1
            /\ runs["quality_review"] = runs["synthesis"]]_vars

(* a session that looped back twice has written three records *)
SavedThreeTimes ==
    /\ save_calls = MAX_ITERATIONS
    /\ runs["kg_update"] = 1

-----------------------------------------------------------------------------
(* A deployment whose database is there but may refuse a save. *)
PersistEnv ==
    [texts |-> SynthesisTexts, saves |-> {"d1", "failed"},
     verses |-> {LongestVerses}, budget |-> MaxFindings]

PersistInit == Arrived(Requests, PersistEnv)

PersistSpec == PersistInit /\ [][Next]_vars

(* the complete event of a closed stream, if it has one *)
Terminal == events[Len(events)].data

HasTerminal == pc = "closed" /\ LastEvent = "complete"

(* the ids the saves of the session returned *)
IdsObtained == Range(saved_ids) \ {"failed"}

(* C21: a failed save is swallowed: it produces no error event and the     *)
(* session still ends with complete, and the discovery_id of the complete  *)
(* event is non-null if and only if a save of the session returned an id:  *)
(* a later pass whose save fails does not hide the id of an earlier pass.  *)
C21_IdIffSomeSaveSucceeded ==
    /\ (failed = "none" /\ pc = "closed") => HasTerminal
    /\ failed = "none" => Count("error") = 0
    /\ HasTerminal =>
          (Terminal.discovery_id # "None" <=> IdsObtained # {})

(* what the code does: the id is the one of the last save, and a failed   *)
(* save is swallowed                                                      *)
IdOfLastSave ==
    /\ (failed = "none" /\ pc = "closed") => HasTerminal
    /\ failed = "none" => Count("error") = 0
    /\ HasTerminal =>
          /\ saved_ids # <<>>
          /\ Terminal.discovery_id =
                IF saved_ids[Len(saved_ids)] = "failed" THEN "None"
                ELSE saved_ids[Len(saved_ids)]

(* a session of one pass reports an id exactly when its save returned it *)
IdIffSavedInOnePass ==
    (HasTerminal /\ Len(saved_ids) = 1) =>
        (Terminal.discovery_id # "None" <=> IdsObtained # {})

(* the first pass saved, the second could not, and the session completed *)
SavedThenFailed ==
    /\ HasTerminal
    /\ saved_ids = <<"d1", "failed">>

-----------------------------------------------------------------------------
(* the search of the current pass found no verse, and no stage raised *)
EmptySearch ==
    /\ failed = "none"
    /\ runs["quran_rag"] >= 1
    /\ "quran_rag" \notin ready
    /\ Get(state, "verses", <<>>) = <<>>

(* stage n has run in the current pass and its update is in the state *)
PassMerged(n) == runs[n] = runs["quran_rag"] /\ n \notin DOMAIN partials

(* the stages other than science on an empty verse list *)
EmptyVersesOtherStages ==
    /\ PassMerged("linguistic") => state["linguistic_analysis"].roots = <<>>
    /\ PassMerged("tafseer") =>
          state["tafseer_findings"].consensus_view = <<>>
    /\ PassMerged("humanities") => state["humanities_findings"] = <<>>
    /\ PassMerged("quality_review") => "quality_score" \in DOMAIN state
    /\ runs["quran_rag"] = 1 => Count("quran_found") = 0
    /\ pc = "closed" =>
          /\ HasTerminal
          /\ \A n \in FANOUT \cup {"linguistic", "quality_review"} :
                PassMerged(n)

(* C22: when quran_rag yields no verses, linguistic, science, tafseer and *)
(* humanities still run and each gives an empty output, quality_review    *)
(* still gives a score, no quran_found event is sent and the stream ends  *)
(* with complete.                                                         *)
C22_EmptyVersesEmptyOutputs ==
    EmptySearch =>
        /\ PassMerged("science") => state["science_findings"] = <<>>
        /\ EmptyVersesOtherStages

(* what holds of the code: every stage but science *)
EmptyVersesAllButScience == EmptySearch => EmptyVersesOtherStages

(* a session that completed without verses and with science findings *)
FindingsWithoutVerses ==
    /\ HasTerminal
    /\ EmptySearch
    /\ runs["quran_rag"] = 1
    /\ Terminal.verses_count = 0
    /\ Terminal.science_findings_count > 0

-----------------------------------------------------------------------------
(* Every adapter mocked: no database, and every LLM call fails, so that    *)
(* quran_rag returns _mock_water_verses and synthesize returns             *)
(* _mock_synthesis.  The review is left open as in Spec.                   *)

(* the tier markers of the text of _mock_synthesis, in the order of the   *)
(* text: the summary, the three rows of the table, the closing line       *)
MOCK_SYNTHESIS == <<"tier_2", "tier_2", "tier_2", "tier_3", "tier_2">>

(* the tier the closing line of _mock_synthesis states *)
MOCK_STATED_TIER == MOCK_SYNTHESIS[Len(MOCK_SYNTHESIS)]

MockEnv ==
    [texts |-> {MOCK_SYNTHESIS}, saves |-> {"no_db"},
     verses |-> {LongestVerses}, budget |-> MaxFindings]

(* the query on water, which holds one keyword of the science table *)
WaterRequests ==
    {[query |-> [science |-> 1, humanities |-> 0, tafseer |-> 0],
      disciplines |-> <<"physics", "biology", "psychology">>,
      mode |-> "guided"]}

MockInit == Arrived(WaterRequests, MockEnv)

MockSpec == MockInit /\ [][Next]_vars

(* C23: with every adapter mocked and the query on water with physics,    *)
(* biology and psychology in guided mode, the complete payload has        *)
(* confidence_tier tier_2 and verses_count at least 1.                    *)
C23_MockedRunIsTier2 ==
    HasTerminal =>
        /\ Terminal.confidence_tier = "tier_2"
        /\ Terminal.verses_count >= 1

(* what the code gives: tier_3, with the verses of the mock, no id, and   *)
(* not the tier the mock text states                                      *)
MockedRunIsTier3 ==
    HasTerminal =>
        /\ Terminal.confidence_tier = "tier_3"
        /\ Terminal.confidence_tier # MOCK_STATED_TIER
        /\ Terminal.verses_count >= 1
        /\ Terminal.discovery_id = "None"
        /\ save_calls = 0

(* the mocked session completed *)
MockedRunCompleted ==
    /\ HasTerminal
    /\ Terminal.synthesis = MOCK_SYNTHESIS
    /\ Terminal.science_findings_count > 0

-----------------------------------------------------------------------------
(* the DiscoveryResponse that explore builds from what ainvoke returned *)
explore(result, session_id) ==
    [session_id |-> session_id,
     synthesis |-> Get(result, "synthesis", <<>>),
     confidence_tier |-> Get(result, "confidence_tier", ""),
     quality_score |-> Get(result, "quality_score", 0),
     quality_issues |-> Get(result, "quality_issues", <<>>),
     verses_count |-> Len(Get(result, "verses", <<>>)),
     science_findings_count |-> Len(Get(result, "science_findings", <<>>)),
     humanities_findings_count |->
        Len(Get(result, "humanities_findings", <<>>)),
     discovery_id |-> Get(result, "discovery_id", "None")]

(* the three counts of a payload are the lengths of the lists of st *)
CountsOf(payload, st) ==
    /\ payload.verses_count = Len(st["verses"])
    /\ payload.science_findings_count = Len(st["science_findings"])
    /\ payload.humanities_findings_count = Len(st["humanities_findings"])

(* C24: in the complete event and in the response of /explore the three   *)
(* counts are the lengths of verses, science_findings and                 *)
(* humanities_findings in the terminal state of the session, whatever     *)
(* the number of loop-back passes.                                        *)
C24_CountsAreTerminalLengths ==
    /\ HasTerminal => CountsOf(Terminal, state)
    /\ (Returned /\ failed = "none") =>
          CountsOf(explore(state, SESSION_ID), state)

(* a completed session whose second pass found less than its first: the  *)
(* first science execution sent a finding, the last one returned none     *)
C24_Witness ==
    /\ HasTerminal
    /\ engine = "compiled"
    /\ runs["science"] = 2
    /\ Count("science_finding") >= 1
    /\ Terminal.science_findings_count = 0
    /\ Terminal.humanities_findings_count = 1
    /\ Terminal.verses_count = MaxVerses

-----------------------------------------------------------------------------
(* The background scheduler.  start() adds the three jobs with the        *)
(* defaults of add_job: at most one running instance of a job, a tick of  *)
(* a job that is at this limit is skipped.  Nothing relates the runs of   *)
(* different jobs.                                                        *)

(* add_job is called without max_instances *)
MaxInstancesTwo(job) == 2

MaxInstances(job) == 1

(* the topic taken one place too far *)
TopicAtNext(idx) == TOPICS_QUEUE[((idx + 1) % Len(TOPICS_QUEUE)) + 1]

(* _run_mcts_session: TOPICS_QUEUE[self.topic_idx % len(TOPICS_QUEUE)] *)
TopicAt(idx) == TOPICS_QUEUE[(idx % Len(TOPICS_QUEUE)) + 1]

RECURSIVE Total(_, _)
Total(f, js) ==
    IF js = {} THEN 0
    ELSE LET j == CHOOSE x \in js : TRUE IN f[j] + Total(f, js \ {j})

session_vars ==
    <<engine, state, ready, partials, pc, pending, events, emitted,
      accumulated_state, replay_i, runs, asked, first_done, failed,
      found, empties, explored, save_calls, duo, checkpoints, env,
      saved_ids>>

(* the trigger of a job fires *)
Tick(job) ==
    /\ Total(sched.ticks, JOBS) < MaxTicks
    /\ LET at_limit == sched.running[job] >= MaxInstances(job)
           mcts == job = "mcts_exploration"
       IN  sched' =
             [sched EXCEPT
                !.ticks[job] = @ + 1,
                !.started[job] = IF at_limit THEN @ ELSE @ + 1,
                !.running[job] =
                    IF at_limit \/ job \notin AWAITING THEN @ ELSE @ + 1,
                !.log = IF mcts /\ ~at_limit
                        THEN Append(@, TopicAt(sched.topic_idx)) ELSE @,
                !.topic_idx = IF mcts /\ ~at_limit THEN @ + 1 ELSE @]
    /\ UNCHANGED session_vars

(* a run of a job ends: its coroutine returns, having caught what its body *)
(* raised                                                                  *)
JobReturns(job, ok) ==
    /\ sched.running[job] >= 1
    /\ sched' = [sched EXCEPT !.running[job] = @ - 1,
                              !.failures = IF ok THEN @ ELSE @ + 1]
    /\ UNCHANGED session_vars

SchedNext ==
    \/ \E job \in JOBS : Tick(job)
    \/ \E job \in JOBS, ok \in BOOLEAN : JobReturns(job, ok)

SchedSpec == Init /\ [][SchedNext]_vars

(* the ticks of job that started no run *)
Skipped(job) == sched.ticks[job] - sched.started[job]

(* C25 as stated: no two job runs are in progress at once, of the same    *)
(* job or of different jobs: a tick that fires while a run is in progress *)
(* is skipped.                                                            *)
C25_NoTwoRunsAtOnce == Total(sched.running, JOBS) <= 1

(* C25, amended: no two runs of the same job are in progress at once: a   *)
(* tick of a job that fires while a run of that job is in progress is     *)
(* skipped and starts no run; runs of different jobs may overlap.         *)
C25_NoTwoRunsOfOneJob ==
    /\ [](\A j \in JOBS : sched.running[j] <= 1)
    /\ [][\A j \in JOBS :
            (sched.running[j] >= 1 /\ sched'.ticks[j] # sched.ticks[j]) =>
                /\ sched'.started = sched.started
                /\ sched'.running = sched.running
                /\ sched'.topic_idx = sched.topic_idx]_vars

(* a tick of the exploration job was skipped while its run and a run of   *)
(* the weekly report were in progress                                     *)
C25_Witness ==
    /\ sched.running["mcts_exploration"] = 1
    /\ sched.running["weekly_report"] = 1
    /\ Skipped("mcts_exploration") >= 1

(* C26 as stated: every run of every job takes the next query of the      *)
(* list, the k-th run entry k mod N, and the index advances by one per    *)
(* run.                                                                   *)
C26_EveryRunTakesNext ==
    /\ sched.topic_idx = Total(sched.started, JOBS)
    /\ Len(sched.log) = Total(sched.started, JOBS)

(* C26, amended: every run of the mcts_exploration job takes the next     *)
(* topic of the list in round-robin order: its k-th run (k = 0, 1, ...)   *)
(* takes entry k mod N, the index advancing by exactly one per run of     *)
(* that job whether or not the run fails; the other jobs take no topic    *)
(* and leave the index alone.                                             *)
C26_ExplorationTakesNext ==
    /\ [](/\ sched.topic_idx = sched.started["mcts_exploration"]
          /\ Len(sched.log) = sched.started["mcts_exploration"]
          /\ \A k \in 1..Len(sched.log) :
                sched.log[k] = TOPICS_QUEUE[((k - 1) % Len(TOPICS_QUEUE)) + 1])
    /\ [][sched'.topic_idx # sched.topic_idx =>
            /\ sched'.topic_idx = sched.topic_idx + 1
            /\ sched'.ticks["mcts_exploration"] =
                  sched.ticks["mcts_exploration"] + 1]_vars

(* nine exploration runs, one of them failed, and a weekly report: the    *)
(* ninth run took the first topic again                                   *)
C26_Witness ==
    /\ Len(sched.log) = Len(TOPICS_QUEUE) + 1
    /\ sched.log[Len(sched.log)] = TOPICS_QUEUE[1]
    /\ sched.failures >= 1
    /\ sched.started["weekly_report"] >= 1

-----------------------------------------------------------------------------
(* Requests of every kind: disciplines given or left empty, the mode      *)
(* given or left empty (run_discovery of the task queue hands on what its *)
(* caller gave), queries with keywords of one table, of two, of none.     *)
RequestKinds ==
    {[query |-> [science |-> 2, humanities |-> 0, tafseer |-> 0],
      disciplines |-> <<>>, mode |-> ""],
     [query |-> [science |-> 0, humanities |-> 1, tafseer |-> 0],
      disciplines |-> <<"physics", "psychology">>, mode |-> "guided"],
     [query |-> [science |-> 0, humanities |-> 0, tafseer |-> 1],
      disciplines |-> <<>>, mode |-> "guided"],
     [query |-> [science |-> 0, humanities |-> 0, tafseer |-> 0],
      disciplines |-> <<"biology">>, mode |-> "guided"],
     [query |-> [science |-> 1, humanities |-> 0, tafseer |-> 0],
      disciplines |-> <<"physics">>, mode |-> "autonomous"],
     [query |-> [science |-> 0, humanities |-> 0, tafseer |-> 2],
      disciplines |-> <<>>, mode |-> "cross_domain"]}

RequestEnv ==
    [texts |-> SynthesisTexts, saves |-> SaveOutcomes,
     verses |-> {LongestVerses}, budget |-> 1]

RequestInit == Arrived(RequestKinds, RequestEnv)

RequestSpec == RequestInit /\ [][Next]_vars

INPUT_FIELDS == {"query", "disciplines", "mode"}

(* the field holds a value: a list that is not empty, a mode that is not  *)
(* the empty string                                                       *)
Holds(st, k) ==
    /\ k \in DOMAIN st
    /\ k = "disciplines" => st[k] # <<>>
    /\ k = "mode" => st[k] # ""

(* C27: query, disciplines and mode are written at most once in a         *)
(* session: a value the caller supplied is never changed, an absent or    *)
(* empty disciplines or mode is set by route_query to physics, biology,   *)
(* psychology and to guided, and no stage and no loop-back pass changes   *)
(* a field that holds a value.                                            *)
C27_InputsWrittenOnce ==
    /\ [][\A k \in INPUT_FIELDS :
            /\ Holds(state, k) => state'[k] = state[k]
            /\ state'[k] # state[k] =>
                  /\ runs["route_query"] = 0
                  /\ runs'["route_query"] = 1
                  /\ state'[k] = IF k = "disciplines"
                                 THEN DEFAULT_DISCIPLINES ELSE "guided"]_vars
    /\ [](runs["route_query"] >= 1 =>
             \A k \in INPUT_FIELDS : Holds(state, k))

(* a session that was given neither disciplines nor a mode completed      *)
(* after a loop-back with the defaults                                    *)
C27_Witness ==
    /\ HasTerminal
    /\ runs["quality_review"] >= 2
    /\ state["query"] = [science |-> 2, humanities |-> 0, tafseer |-> 0]
    /\ state["disciplines"] = DEFAULT_DISCIPLINES
    /\ state["mode"] = "guided"

(* the branches that have run *)
Activated == {f \in FANOUT : runs[f] >= 1}

(* the branches the route names *)
BranchesOf(r) == IF r = "parallel" THEN FANOUT ELSE {r}

(* C28: the route computed for the query decides which branches run:      *)
(* science, humanities and tafseer each only their own branch, parallel   *)
(* (always the route of the modes autonomous and cross_domain) all three. *)
C28_RouteSelectsBranches ==
    /\ runs["route_query"] >= 1 =>
          (state["mode"] \in {"autonomous", "cross_domain"} =>
              route(state) = "parallel")
    /\ runs["synthesis"] >= 1 => Activated = BranchesOf(route(state))

(* what the code does: the route is recorded, and every branch runs *)
EveryBranchRuns ==
    /\ runs["route_query"] >= 1 =>
          (state["mode"] \in {"autonomous", "cross_domain"} =>
              route(state) = "parallel")
    /\ runs["synthesis"] >= 1 => Activated = FANOUT

(* a session routed to science completed with humanities findings *)
RoutedToScienceRanAll ==
    /\ HasTerminal
    /\ route(state) = "science"
    /\ Activated = FANOUT
    /\ Terminal.humanities_findings_count >= 1

-----------------------------------------------------------------------------
(* Synthesis texts of every kind: no tier named, one tier named, two      *)
(* named in either order of the text.                                     *)
TierTexts ==
    {<<>>, <<"tier_1">>, <<"tier_2">>,
     <<"tier_2", "tier_3">>, <<"tier_3", "tier_1">>}

TierEnv ==
    [texts |-> TierTexts, saves |-> SaveOutcomes,
     verses |-> {LongestVerses}, budget |-> 1]

TierInit == Arrived(WaterRequests, TierEnv)

TierSpec == TierInit /\ [][Next]_vars

Names(text, t) == \E i \in 1..Len(text) : text[i] = t

-----------------------------------------------------------------------------
(* the positions of the quality_done events sent so far *)
QualityDone == {i \in 1..Len(events) : events[i].event = "quality_done"}

(* the fields of the state that the passes of synthesis and of            *)
(* quality_review write, and the node that writes each                    *)
PASS_FIELDS == {"synthesis", "confidence_tier", "quality_score"}

WriterOf(k) == IF k = "quality_score" THEN "quality_review" ELSE "synthesis"

NodeReturned(n) == runs'[n] = runs[n] + 1

(* C30: over the compiled graph there is one quality_done event at most;  *)
(* it is built when quality_review returns for the first time, from the   *)
(* score of that pass, and no later pass changes or repeats it, as events *)
(* are only ever appended.  The state's synthesis, confidence_tier and    *)
(* quality_score are overwritten by each pass and by nothing else, and    *)
(* the complete payload carries what the last pass left.  With one        *)
(* review, quality_done and complete carry the same score.                *)
C30_FirstScoreThenLast ==
    /\ [](engine = "compiled" =>
            /\ Cardinality(QualityDone) <= 1
            /\ \A i \in QualityDone :
                  /\ runs["quality_review"] >= 1
                  /\ (events[i].data.score < DEEPEN_THRESHOLD) = asked[1]
                  /\ runs["quality_review"] = 1
                        => events[i].data.score = state["quality_score"]
            /\ HasTerminal =>
                  /\ QualityDone # {}
                  /\ Terminal.synthesis = state["synthesis"]
                  /\ Terminal.confidence_tier = state["confidence_tier"]
                  /\ Terminal.quality_score = state["quality_score"]
                  /\ (Terminal.quality_score < DEEPEN_THRESHOLD)
                        = asked[Len(asked)]
                  /\ runs["quality_review"] = 1 =>
                        \A i \in QualityDone :
                            events[i].data.score = Terminal.quality_score)
    /\ [][engine = "compiled" =>
            /\ Len(events') >= Len(events)
            /\ SubSeq(events', 1, Len(events)) = events
            /\ (NodeReturned("quality_review") /\ runs["quality_review"] = 0)
                  => pending' =
                       <<_sse_event("quality_done",
                                    [stage |-> "quality_done",
                                     score |-> state'["quality_score"]])>>
            /\ (NodeReturned("quality_review") /\ runs["quality_review"] >= 1)
                  => pending' = <<>>
            /\ \A k \in PASS_FIELDS :
                  (k \in DOMAIN state /\ state'[k] # state[k])
                      => NodeReturned(WriterOf(k))]_vars

(* a compiled session of two passes or more, closed by complete: the      *)
(* quality_done event carries the low score of the first pass, complete   *)
(* the high score of the last, with a text that is not the one sent as    *)
(* synthesis_token                                                        *)
C30_Witness ==
    /\ engine = "compiled"
    /\ HasTerminal
    /\ runs["quality_review"] >= 2
    /\ \E i \in QualityDone :
          /\ events[i].data.score < DEEPEN_THRESHOLD
          /\ Terminal.quality_score > events[i].data.score
    /\ \E i \in 1..Len(events) :
          /\ events[i].event = "synthesis_token"
          /\ events[i].data.token # Terminal.synthesis

====
